---- MODULE Spec2Model ----
(***************************************************************************)
(* Model of dashboard_metricas.py: a Streamlit script that loads a ledger  *)
(* of closed trades and derives returns, calibration, a performance        *)
(* summary, adherence, slippage deviation, equity/drawdown and alerts.     *)
(* The script runs top to bottom once per upload; every section of the     *)
(* script is one action, and pc is the position of the run.  Chart         *)
(* drawing, the detail table and the glossary compute nothing that later   *)
(* sections read and are left out, except where a call can end the run.    *)
(* Numbers are exact fractions plus the IEEE special values; rounding of   *)
(* doubles is modelled only where it moves a bin edge (see bins).          *)
(***************************************************************************)
EXTENDS Integers, Sequences, FiniteSets, TLC

\* ------------------------------------------------------------------ bounds
\* Largest number of rows in an uploaded sheet.
MaxTrades == 3

\* ------------------------------------------------------- floating values
\* A cell or computed number.  Finite values are exact fractions n/d in
\* lowest terms (d > 0); "nan", "inf" and "ninf" are the IEEE specials that
\* numpy/pandas arithmetic produces instead of raising; "str" is a cell
\* holding text; "unset" is a script variable not assigned yet.
Abs(x) == IF x < 0 THEN -x ELSE x

RECURSIVE Gcd(_, _)
Gcd(a, b) == IF b = 0 THEN a ELSE Gcd(b, a % b)

Special(kind) == [k |-> kind, n |-> 0, d |-> 1]
NaN == Special("nan")
PInf == Special("inf")
NInf == Special("ninf")
Str == Special("str")
Unset == Special("unset")

Num(a, b) ==
    LET s == IF b < 0 THEN -1 ELSE 1
        g == Gcd(Abs(a), Abs(b))
    IN  [k |-> "num", n |-> (s * a) \div g, d |-> (s * b) \div g]

Zero == Num(0, 1)
One == Num(1, 1)

IsNum(x) == x.k = "num"
IsNaN(x) == x.k = "nan"
IsInf(x) == x.k \in {"inf", "ninf"}
IsFinite(x) == x.k = "num"

\* sign of a value that is not NaN: -1, 0 or 1
Sign(x) ==
    CASE x.k = "inf" -> 1
      [] x.k = "ninf" -> -1
      [] OTHER -> IF x.n > 0 THEN 1 ELSE IF x.n < 0 THEN -1 ELSE 0

Signed(s) == IF s > 0 THEN PInf ELSE IF s < 0 THEN NInf ELSE NaN

Neg(x) ==
    CASE x.k = "inf" -> NInf
      [] x.k = "ninf" -> PInf
      [] x.k = "num" -> Num(-x.n, x.d)
      [] OTHER -> NaN

Add(x, y) ==
    CASE ~(x.k \in {"num", "inf", "ninf"}) \/ ~(y.k \in {"num", "inf", "ninf"}) -> NaN
      [] IsNum(x) /\ IsNum(y) -> Num(x.n * y.d + y.n * x.d, x.d * y.d)
      [] IsInf(x) /\ IsInf(y) -> IF x.k = y.k THEN x ELSE NaN
      [] IsInf(x) -> x
      [] OTHER -> y

Sub(x, y) == Add(x, Neg(y))

Mul(x, y) ==
    CASE ~(x.k \in {"num", "inf", "ninf"}) \/ ~(y.k \in {"num", "inf", "ninf"}) -> NaN
      [] IsNum(x) /\ IsNum(y) -> Num(x.n * y.n, x.d * y.d)
      [] OTHER -> Signed(Sign(x) * Sign(y))

\* numpy float division: never raises, x/0 is +-inf and 0/0 is nan
Div(x, y) ==
    CASE ~(x.k \in {"num", "inf", "ninf"}) \/ ~(y.k \in {"num", "inf", "ninf"}) -> NaN
      [] IsInf(x) /\ IsInf(y) -> NaN
      [] IsInf(x) -> IF Sign(y) < 0 THEN Neg(x) ELSE x
      [] IsInf(y) -> Zero
      [] y.n = 0 -> Signed(Sign(x))
      [] OTHER -> Num(x.n * y.d, x.d * y.n)

\* comparisons; any comparison with NaN is false
Lt(x, y) ==
    CASE ~(x.k \in {"num", "inf", "ninf"}) \/ ~(y.k \in {"num", "inf", "ninf"}) -> FALSE
      [] IsNum(x) /\ IsNum(y) -> x.n * y.d < y.n * x.d
      [] x.k = "ninf" -> y.k # "ninf"
      [] x.k = "inf" -> FALSE
      [] OTHER -> y.k = "inf"

Gt(x, y) == Lt(y, x)
Le(x, y) == Lt(x, y) \/ (x.k \in {"num", "inf", "ninf"} /\ x = y)

AbsV(x) ==
    CASE IsInf(x) -> PInf
      [] IsNum(x) -> Num(Abs(x.n), x.d)
      [] OTHER -> NaN

\* ---------------------------------------------------------- series helpers
RECURSIVE SumV(_)
SumV(s) == IF s = <<>> THEN Zero ELSE Add(Head(s), SumV(Tail(s)))

NotNaN(x) == ~IsNaN(x)

\* pandas Series.mean(): NaN entries are skipped, an empty selection is NaN
Mean(s) ==
    LET v == SelectSeq(s, NotNaN)
    IN  IF v = <<>> THEN NaN ELSE Div(SumV(v), Num(Len(v), 1))

\* pandas Series.cumsum(): a NaN entry stays NaN and is skipped by the sum
RECURSIVE CumSumFrom(_, _)
CumSumFrom(acc, s) ==
    IF s = <<>> THEN <<>>
    ELSE IF IsNaN(Head(s)) THEN <<NaN>> \o CumSumFrom(acc, Tail(s))
    ELSE <<Add(acc, Head(s))>> \o CumSumFrom(Add(acc, Head(s)), Tail(s))

CumSum(s) == CumSumFrom(Zero, s)

\* pandas Series.cummax(): running maximum
RECURSIVE CumMaxFrom(_, _)
CumMaxFrom(acc, s) ==
    IF s = <<>> THEN <<>>
    ELSE IF IsNaN(Head(s)) THEN <<NaN>> \o CumMaxFrom(acc, Tail(s))
    ELSE LET m == IF acc = Unset \/ Gt(Head(s), acc) THEN Head(s) ELSE acc
         IN  <<m>> \o CumMaxFrom(m, Tail(s))

CumMax(s) == CumMaxFrom(Unset, s)

IntLess(a, b) == a < b

\* pandas Series.sort_values() on the exit timestamps, ascending
SortValues(s) == SortSeq(s, IntLess)

\* the values of one column of the frame, in row order
Column(rows, c) == [i \in 1..Len(rows) |-> rows[i][c]]

\* ------------------------------------------------------------ the script
VARIABLES
    pc,                 \* section of the script the run is at
    archivo,            \* the upload: whether a file was given, its header, its rows
    df,                 \* rows of the frame read from the file
    retorno_realizado,  \* df["retorno_realizado"]
    resultado,          \* df["resultado"]
    frecuencia_real,    \* realised win frequency per calibration bin
    serie_equity,       \* (fecha_salida, valor) points of the equity curve
    tasa_exito, gan_media, per_media, expectativa,
    metricas,           \* whether the summary metrics were put on the page
    cols_bool,          \* adherence columns found in the frame
    slip_vals,          \* slippage deviation series
    dd,                 \* drawdown values, aligned with serie_equity
    alerts,             \* alert list built by the alert section
    warnings,           \* st.warning messages on the page, in order
    success,            \* whether st.success("Sin alertas criticas") is on the page
    error,              \* st.error text or the uncaught exception ending the run
    error_cols          \* the column names the error message lists

vars == <<pc, archivo, df, retorno_realizado, resultado, frecuencia_real,
          serie_equity, tasa_exito, gan_media, per_media, expectativa, metricas,
          cols_bool, slip_vals, dd, alerts, warnings, success, error, error_cols>>

columnas_obligatorias ==
    <<"id_operacion", "fecha_entrada", "fecha_salida", "activo", "lado",
      "precio_entrada", "precio_salida", "probabilidad_asignada">>

\* read_excel(..., parse_dates=[...])
parse_dates == <<"fecha_entrada", "fecha_salida">>

columnas_control ==
    <<"regla_riesgo_ok", "regla_salida_ok", "tesis_documentada", "proceso_seguido">>

columnas_slippage == <<"slippage_estimado_pct", "slippage_real_pct">>

Range(s) == {s[i] : i \in 1..Len(s)}

Todas ==
    Range(columnas_obligatorias) \cup Range(columnas_control)
        \cup Range(columnas_slippage) \cup {"tamanio"}

\* str.lower() on the side labels that occur in the sheets
Lower(t) ==
    CASE t = "LARGO" -> "largo"
      [] t = "Largo" -> "largo"
      [] t = "CORTO" -> "corto"
      [] OTHER -> t

\* calcular_retorno(fila) with the division the arithmetic of the row gives
calcular_retorno(fila) ==
    IF Lower(fila["lado"]) = "largo"
    THEN Div(Sub(fila["precio_salida"], fila["precio_entrada"]), fila["precio_entrada"])
    ELSE Div(Sub(fila["precio_entrada"], fila["precio_salida"]), fila["precio_entrada"])

\* a Python float (or int) division by zero raises ZeroDivisionError
DivideByZero(fila) == IsNum(fila["precio_entrada"]) /\ fila["precio_entrada"].n = 0

AsInt(b) == IF b THEN One ELSE Zero

\* Series.clip(0, 1)
Clip01(x) == IF Lt(x, Zero) THEN Zero ELSE IF Gt(x, One) THEN One ELSE x

\* np.linspace(0, 1, 6): edge i is i * 0.2 in IEEE-754 double arithmetic (the
\* last one is set to the stop value).  2 * 0.2 and 4 * 0.2 are the doubles
\* nearest 0.4 and 0.8, but 3 * 0.2 rounds to 0.6000000000000001, one unit in
\* the last place above the double nearest 0.6; ulp records that excess.
bins ==
    << [v |-> Num(0, 5), ulp |-> 0], [v |-> Num(1, 5), ulp |-> 0],
       [v |-> Num(2, 5), ulp |-> 0], [v |-> Num(3, 5), ulp |-> 1],
       [v |-> Num(4, 5), ulp |-> 0], [v |-> Num(5, 5), ulp |-> 0] >>

\* (bins[:-1] + bins[1:]) / 2; 0.4 + 0.6000000000000001 rounds to 1.0 exactly,
\* so the middle centre is 0.5
centros == [i \in 1..5 |-> Div(Add(bins[i].v, bins[i + 1].v), Num(2, 1))]

\* x >= e for a probability x read from the sheet (the double nearest a decimal)
GeEdge(x, e) == Lt(e.v, x) \/ (x = e.v /\ e.ulp = 0)

\* bin of x (1..5) as binned_statistic assigns it: bins[i] <= x < bins[i+1],
\* the last bin closed on the right; 0 when x lies outside the edges
BinOf(x) ==
    IF x = bins[6].v THEN 5
    ELSE IF \E i \in 1..5 : GeEdge(x, bins[i]) /\ ~GeEdge(x, bins[i + 1])
         THEN CHOOSE i \in 1..5 : GeEdge(x, bins[i]) /\ ~GeEdge(x, bins[i + 1])
         ELSE 0

\* the members of s at the positions where keep holds
RECURSIVE Pick(_, _)
Pick(s, keep) ==
    IF s = <<>> THEN <<>>
    ELSE (IF Head(keep) THEN <<Head(s)>> ELSE <<>>) \o Pick(Tail(s), Tail(keep))

\* binned_statistic(datos_probs, values, "mean", bins=bins)
binned_statistic(datos_probs, values) ==
    [b \in 1..5 |->
        Mean(Pick(values, [i \in 1..Len(values) |-> BinOf(datos_probs[i]) = b]))]

\* pd.to_numeric(..., errors="coerce")
ToNumeric(x) == IF x.k = "str" THEN NaN ELSE x

\* .fillna(1)
FillNa1(x) == IF IsNaN(x) THEN One ELSE x

\* pd.to_numeric(df.get("tamanio", pd.Series(1, index=df.index)), errors="coerce").fillna(1)
Tamanios(cols, rows) ==
    [i \in 1..Len(rows) |->
        IF "tamanio" \in cols THEN FillNa1(ToNumeric(rows[i]["tamanio"])) ELSE One]

\* pd.Series((retornos * tamanios).cumsum().values, index=df["fecha_salida"].sort_values())
SerieEquity(retornos, tamanios, rows) ==
    LET valores == CumSum([i \in 1..Len(rows) |-> Mul(retornos[i], tamanios[i])])
        indice == SortValues(Column(rows, "fecha_salida"))
    IN  [i \in 1..Len(rows) |-> [fecha_salida |-> indice[i], valor |-> valores[i]]]

IsPositive(x) == Gt(x, Zero)
IsNonPositive(x) == Le(x, Zero)

\* tasa_exito * gan_media + (1 - tasa_exito) * per_media
Expectativa(tasa, gan, per) == Add(Mul(tasa, gan), Mul(Sub(One, tasa), per))

\* (serie_equity - peak) / peak with peak = serie_equity.cummax()
Drawdown(valores) ==
    LET peak == CumMax(valores)
    IN  [i \in 1..Len(valores) |-> Div(Sub(valores[i], peak[i]), peak[i])]

\* "{:.0%}": the percentage rounded to a whole number
Pct(x) == IF IsNum(x) THEN (200 * x.n + x.d) \div (2 * x.d) ELSE 0

Alerta(texto, regla, pct) == [msg |-> texto, regla |-> regla, pct |-> pct]

AlertaCalibracion == Alerta("Desviacion >15% en calibracion (prob ~50%)", "", 0)
AlertaAdherencia(regla, cumplimiento) == Alerta("Adherencia baja", regla, Pct(cumplimiento))
AlertaExpectativa == Alerta("Expectativa por operacion negativa", "", 0)

\* for regla, cumplimiento in {c: df[c].mean() ...}.items(): if cumplimiento < 0.7
RECURSIVE AlertasAdherencia(_, _)
AlertasAdherencia(cols, rows) ==
    IF cols = <<>> THEN <<>>
    ELSE LET cumplimiento == Mean(Column(rows, Head(cols)))
         IN  (IF Lt(cumplimiento, Num(7, 10))
              THEN <<AlertaAdherencia(Head(cols), cumplimiento)>> ELSE <<>>)
             \o AlertasAdherencia(Tail(cols), rows)

\* Alerts with the expectancy rule evaluated before the adherence rules
Alerts_ExpectativaAntes(frec, cols, rows, expect) ==
    (IF Len(centros) >= 3 /\ Gt(AbsV(Sub(frec[3], centros[3])), Num(15, 100))
     THEN <<AlertaCalibracion>> ELSE <<>>)
    \o (IF Lt(expect, Zero) THEN <<AlertaExpectativa>> ELSE <<>>)
    \o AlertasAdherencia(cols, rows)

\* the alert list of section 7, from the aggregates computed before it
Alerts(frec, cols, rows, expect) ==
    (IF Len(centros) >= 3 /\ Gt(AbsV(Sub(frec[3], centros[3])), Num(15, 100))
     THEN <<AlertaCalibracion>> ELSE <<>>)
    \o AlertasAdherencia(cols, rows)
    \o (IF Lt(expect, Zero) THEN <<AlertaExpectativa>> ELSE <<>>)

\* --------------------------------------------------------------- actions
\* the run ends with an uncaught exception
Raise(nombre, columnas) ==
    /\ pc' = "excepcion"
    /\ error' = nombre
    /\ error_cols' = columnas

Missing(names, cols) == SelectSeq(names, LAMBDA c : c \notin cols)

\* 1. Carga de datos: no upload stops the script with a warning; read_excel
\* refuses a sheet that lacks a column named in parse_dates
CargaDeDatos ==
    /\ pc = "carga"
    /\ IF ~archivo.subido
       THEN /\ pc' = "stop"
            /\ warnings' = <<Alerta("Por favor, sube un archivo .xlsx para continuar.", "", 0)>>
            /\ UNCHANGED <<df, error, error_cols>>
       ELSE IF Missing(parse_dates, archivo.columns) # <<>>
            THEN /\ Raise("ValueError", Missing(parse_dates, archivo.columns))
                 /\ UNCHANGED <<df, warnings>>
            ELSE /\ pc' = "verificar"
                 /\ df' = archivo.rows
                 /\ UNCHANGED <<warnings, error, error_cols>>
    /\ UNCHANGED <<archivo, retorno_realizado, resultado, frecuencia_real,
                   serie_equity, tasa_exito, gan_media, per_media, expectativa,
                   metricas, cols_bool, slip_vals, dd, alerts, success>>

\* Verificar columnas obligatorias
VerificarColumnas ==
    /\ pc = "verificar"
    /\ LET faltantes == Missing(columnas_obligatorias, archivo.columns)
       IN  IF faltantes # <<>>
           THEN /\ pc' = "stop"
                /\ error' = "Faltan columnas obligatorias"
                /\ error_cols' = faltantes
           ELSE /\ pc' = "retorno"
                /\ UNCHANGED <<error, error_cols>>
    /\ UNCHANGED <<archivo, df, retorno_realizado, resultado, frecuencia_real,
                   serie_equity, tasa_exito, gan_media, per_media, expectativa,
                   metricas, cols_bool, slip_vals, dd, alerts, warnings, success>>

\* 2. Calculo de retorno y resultado.  The row handed to calcular_retorno
\* holds Python numbers when pandas builds it from an object array and numpy
\* floats otherwise; DataFrame.apply on a frame without rows either returns
\* an empty Series or an empty frame that cannot be stored in one column.
CalculoRetorno ==
    /\ pc = "retorno"
    /\ \E escalares \in {"python", "numpy"}, vacio \in {"serie", "frame"} :
         IF df = <<>> /\ vacio = "frame"
         THEN /\ Raise("ValueError", <<>>)
              /\ UNCHANGED <<retorno_realizado, resultado>>
         ELSE IF escalares = "python" /\ \E i \in 1..Len(df) : DivideByZero(df[i])
         THEN /\ Raise("ZeroDivisionError", <<>>)
              /\ UNCHANGED <<retorno_realizado, resultado>>
         ELSE /\ retorno_realizado' = [i \in 1..Len(df) |-> calcular_retorno(df[i])]
              /\ resultado' = [i \in 1..Len(df) |-> AsInt(Gt(calcular_retorno(df[i]), Zero))]
              /\ pc' = "precalculo"
              /\ UNCHANGED <<error, error_cols>>
    /\ UNCHANGED <<archivo, df, frecuencia_real, serie_equity, tasa_exito,
                   gan_media, per_media, expectativa, metricas, cols_bool,
                   slip_vals, dd, alerts, warnings, success>>

\* Pre-calculos para graficos
PreCalculos ==
    /\ pc = "precalculo"
    /\ frecuencia_real' =
          binned_statistic([i \in 1..Len(df) |-> Clip01(df[i]["probabilidad_asignada"])],
                           resultado)
    /\ serie_equity' =
          SerieEquity(retorno_realizado, Tamanios(archivo.columns, df), df)
    /\ pc' = "resumen"
    /\ UNCHANGED <<archivo, df, retorno_realizado, resultado, tasa_exito,
                   gan_media, per_media, expectativa, metricas, cols_bool,
                   slip_vals, dd, alerts, warnings, success, error, error_cols>>

\* 3. Resumen de desempeno
Resumen ==
    /\ pc = "resumen"
    /\ tasa_exito' = Mean(resultado)
    /\ gan_media' = Mean(SelectSeq(retorno_realizado, IsPositive))
    /\ per_media' = Mean(SelectSeq(retorno_realizado, IsNonPositive))
    /\ expectativa' = Expectativa(tasa_exito', gan_media', per_media')
    /\ metricas' = TRUE
    /\ pc' = "adherencia"
    /\ UNCHANGED <<archivo, df, retorno_realizado, resultado, frecuencia_real,
                   serie_equity, cols_bool, slip_vals, dd, alerts, warnings,
                   success, error, error_cols>>

\* Adherencia al proceso
Adherencia ==
    /\ pc = "adherencia"
    /\ cols_bool' = SelectSeq(columnas_control, LAMBDA c : c \in archivo.columns)
    /\ pc' = "histograma"
    /\ UNCHANGED <<archivo, df, retorno_realizado, resultado, frecuencia_real,
                   serie_equity, tasa_exito, gan_media, per_media, expectativa,
                   metricas, slip_vals, dd, alerts, warnings, success, error,
                   error_cols>>

\* Histograma de retornos: the bin range is taken over the non-NaN returns
\* and numpy refuses a range that is not finite
Histograma ==
    /\ pc = "histograma"
    /\ IF \/ \E i \in 1..Len(retorno_realizado) : IsInf(retorno_realizado[i])
          \/ /\ retorno_realizado # <<>>
             /\ \A i \in 1..Len(retorno_realizado) : IsNaN(retorno_realizado[i])
       THEN Raise("ValueError", <<>>)
       ELSE /\ pc' = "slippage"
            /\ UNCHANGED <<error, error_cols>>
    /\ UNCHANGED <<archivo, df, retorno_realizado, resultado, frecuencia_real,
                   serie_equity, tasa_exito, gan_media, per_media, expectativa,
                   metricas, cols_bool, slip_vals, dd, alerts, warnings, success>>

\* Sobre-slippage: dropna(subset=[...]) raises KeyError for a missing column
SobreSlippage ==
    /\ pc = "slippage"
    /\ IF Missing(columnas_slippage, archivo.columns) # <<>>
       THEN /\ Raise("KeyError", Missing(columnas_slippage, archivo.columns))
            /\ UNCHANGED slip_vals
       ELSE /\ LET slip_df == SelectSeq(df, LAMBDA fila :
                                 /\ ~IsNaN(fila["slippage_estimado_pct"])
                                 /\ ~IsNaN(fila["slippage_real_pct"]))
               IN  slip_vals' = [i \in 1..Len(slip_df) |->
                                   Sub(slip_df[i]["slippage_real_pct"],
                                       slip_df[i]["slippage_estimado_pct"])]
            /\ pc' = "equity"
            /\ UNCHANGED <<error, error_cols>>
    /\ UNCHANGED <<archivo, df, retorno_realizado, resultado, frecuencia_real,
                   serie_equity, tasa_exito, gan_media, per_media, expectativa,
                   metricas, cols_bool, dd, alerts, warnings, success>>

\* 5. Equity y drawdown
EquityDrawdown ==
    /\ pc = "equity"
    /\ dd' = Drawdown([i \in 1..Len(serie_equity) |-> serie_equity[i].valor])
    /\ pc' = "alertas"
    /\ UNCHANGED <<archivo, df, retorno_realizado, resultado, frecuencia_real,
                   serie_equity, tasa_exito, gan_media, per_media, expectativa,
                   metricas, cols_bool, slip_vals, alerts, warnings, success,
                   error, error_cols>>

\* Alertas with the "Sin alertas criticas" status shown unconditionally
Alertas_SiempreExito ==
    /\ pc = "alertas"
    /\ alerts' = Alerts(frecuencia_real, cols_bool, df, expectativa)
    /\ warnings' = alerts'
    /\ success' = TRUE
    /\ pc' = "fin"
    /\ UNCHANGED <<archivo, df, retorno_realizado, resultado, frecuencia_real,
                   serie_equity, tasa_exito, gan_media, per_media, expectativa,
                   metricas, cols_bool, slip_vals, dd, error, error_cols>>

\* 7. Alertas automaticas
Alertas ==
    /\ pc = "alertas"
    /\ alerts' = Alerts(frecuencia_real, cols_bool, df, expectativa)
    /\ IF alerts' # <<>>
       THEN /\ warnings' = alerts'
            /\ UNCHANGED success
       ELSE /\ success' = TRUE
            /\ UNCHANGED warnings
    /\ pc' = "fin"
    /\ UNCHANGED <<archivo, df, retorno_realizado, resultado, frecuencia_real,
                   serie_equity, tasa_exito, gan_media, per_media, expectativa,
                   metricas, cols_bool, slip_vals, dd, error, error_cols>>

Next ==
    \/ CargaDeDatos
    \/ VerificarColumnas
    \/ CalculoRetorno
    \/ PreCalculos
    \/ Resumen
    \/ Adherencia
    \/ Histograma
    \/ SobreSlippage
    \/ EquityDrawdown
    \/ Alertas

\* ------------------------------------------------------- uploaded sheets
\* The cells of one row that the script reads (id_operacion, fecha_entrada and
\* activo are only shown in the detail table; their presence in the header is
\* what matters).  True/False cells are 1/0, an empty cell is NaN.
FilaBase ==
    [lado |-> "largo", precio_entrada |-> Num(4, 1), precio_salida |-> Num(6, 1),
     probabilidad_asignada |-> Num(1, 2), fecha_salida |-> 1, tamanio |-> NaN,
     regla_riesgo_ok |-> One, regla_salida_ok |-> One, tesis_documentada |-> One,
     proceso_seguido |-> One, slippage_estimado_pct |-> NaN,
     slippage_real_pct |-> NaN]

\* a row of a sheet with header cols has no cell under a column that is absent
Blank(fila, cols) ==
    [c \in DOMAIN fila |->
        IF c \in cols THEN fila[c]
        ELSE IF c = "fecha_salida" THEN 0
        ELSE IF c = "lado" THEN ""
        ELSE NaN]

NoFile == [subido |-> FALSE, columns |-> {}, rows |-> <<>>]

Sheet(cols, rows) ==
    [subido |-> TRUE, columns |-> cols,
     rows |-> [i \in 1..Len(rows) |-> Blank(rows[i], cols)]]

Batches(filas) == UNION {[1..n -> filas] : n \in 0..MaxTrades}

Sheets(headers, filas) ==
    {NoFile} \cup {Sheet(cols, rows) : cols \in headers, rows \in Batches(filas)}

InitWith(files) ==
    /\ pc = "carga"
    /\ archivo \in files
    /\ df = <<>>
    /\ retorno_realizado = <<>>
    /\ resultado = <<>>
    /\ frecuencia_real = <<>>
    /\ serie_equity = <<>>
    /\ tasa_exito = Unset
    /\ gan_media = Unset
    /\ per_media = Unset
    /\ expectativa = Unset
    /\ metricas = FALSE
    /\ cols_bool = <<>>
    /\ slip_vals = <<>>
    /\ dd = <<>>
    /\ alerts = <<>>
    /\ warnings = <<>>
    /\ success = FALSE
    /\ error = ""
    /\ error_cols = <<>>

\* sheets for the equity curve: wins, losses and flat trades closed in any
\* order, with the size column absent, textual or numeric
FilasEquity ==
    {[FilaBase EXCEPT !.precio_salida = Num(ps, 1), !.fecha_salida = fs, !.tamanio = t] :
        ps \in {2, 4, 6}, fs \in {1, 2}, t \in {Str, Num(2, 1)}}

InitEquity == InitWith(Sheets({Todas, Todas \ {"tamanio"}}, FilasEquity))
SpecEquity == InitEquity /\ [][Next]_vars

\* sheets for the alert rules: any subset of the control columns, wins and
\* losses at probabilities inside and outside the middle bin
FilasAlertas ==
    {[FilaBase EXCEPT !.precio_salida = Num(ps, 1), !.probabilidad_asignada = Num(p, 10),
                      !.regla_riesgo_ok = r, !.regla_salida_ok = Zero,
                      !.tesis_documentada = Sub(One, r)] :
        ps \in {1, 6}, p \in {5, 9}, r \in {Zero, One}}

HeadersAlertas == {Todas \ quitar : quitar \in SUBSET Range(columnas_control)}

InitAlertas == InitWith(Sheets(HeadersAlertas, FilasAlertas))
SpecAlertas == InitAlertas /\ [][Next]_vars

\* sheets for the calibration curve: probabilities on and around the bin edges
\* and outside [0, 1]
FilasCalibracion ==
    {[FilaBase EXCEPT !.precio_salida = Num(ps, 1), !.probabilidad_asignada = Num(p, 10)] :
        ps \in {1, 6}, p \in {-1, 3, 4, 5, 6, 12}}

InitCalibracion == InitWith(Sheets({Todas}, FilasCalibracion))
SpecCalibracion == InitCalibracion /\ [][Next]_vars

\* sheets for the summary: both sides, gains, losses and flat trades
FilasResumen ==
    {[FilaBase EXCEPT !.lado = l, !.precio_salida = Num(ps, 1)] :
        l \in {"largo", "LARGO", "corto"}, ps \in {1, 4, 5, 6}}

InitResumen == InitWith(Sheets({Todas}, FilasResumen))
SpecResumen == InitResumen /\ [][Next]_vars

\* sheets with a zero entry price
FilasRetorno ==
    {[FilaBase EXCEPT !.lado = l, !.precio_entrada = Num(pe, 1), !.precio_salida = Num(ps, 1)] :
        l \in {"largo", "corto"}, pe \in {0, 4}, ps \in {2, 6}}

InitRetorno == InitWith(Sheets({Todas}, FilasRetorno))
SpecRetorno == InitRetorno /\ [][Next]_vars

\* sheets with and without the two slippage columns, cells filled or empty
FilasSlippage ==
    {[FilaBase EXCEPT !.slippage_estimado_pct = e, !.slippage_real_pct = r] :
        e \in {NaN, Num(1, 100)}, r \in {NaN, Num(1, 100), Num(3, 100)}}

HeadersSlippage == {Todas \ quitar : quitar \in SUBSET Range(columnas_slippage)}

InitSlippage == InitWith(Sheets(HeadersSlippage, FilasSlippage))
SpecSlippage == InitSlippage /\ [][Next]_vars

\* sheets lacking any subset of the mandatory columns
FilasColumnas == {FilaBase, [FilaBase EXCEPT !.precio_salida = Num(1, 1)]}

HeadersColumnas == {Todas \ quitar : quitar \in SUBSET Range(columnas_obligatorias)}

InitColumnas == InitWith(Sheets(HeadersColumnas, FilasColumnas))
SpecColumnas == InitColumnas /\ [][Next]_vars

\* ------------------------------------------------------------ properties
Secciones ==
    <<"carga", "verificar", "retorno", "precalculo", "resumen", "adherencia",
      "histograma", "slippage", "equity", "alertas", "fin">>

Pos(p) == CHOOSE i \in 1..Len(Secciones) : Secciones[i] = p

\* the run has completed the given section and is still going (or finished)
Pasado(seccion) == pc \in Range(Secciones) /\ Pos(pc) > Pos(seccion)

Terminado == pc \in {"fin", "stop", "excepcion"}

\* row numbers by ascending exit time, ties in original order
OrdenSalida(rows) ==
    SortSeq([i \in 1..Len(rows) |-> i],
            LAMBDA a, b : \/ rows[a]["fecha_salida"] < rows[b]["fecha_salida"]
                          \/ /\ rows[a]["fecha_salida"] = rows[b]["fecha_salida"]
                             /\ a < b)

\* size of a trade: 1 when the column is absent or the cell is empty or text
SizeOf(cols, fila) ==
    IF "tamanio" \in cols /\ IsNum(fila["tamanio"]) THEN fila["tamanio"] ELSE One

\* realized_return * size summed over the first k trades of the given order
RECURSIVE RunningSum(_, _)
RunningSum(orden, k) ==
    IF k = 0 THEN Zero
    ELSE Add(RunningSum(orden, k - 1),
             Mul(retorno_realizado[orden[k]], SizeOf(archivo.columns, df[orden[k]])))

\* C1: the equity curve has one point per trade, and the value paired with the
\* i-th smallest exit time is the running sum of realized_return * size over
\* the trades with the i smallest exit times (ties in original order).
C1_EquityByExitTime ==
    Pasado("precalculo") =>
        /\ Len(serie_equity) = Len(df)
        /\ \A i \in 1..Len(df) :
              /\ serie_equity[i].fecha_salida = df[OrdenSalida(df)[i]]["fecha_salida"]
              /\ serie_equity[i].valor = RunningSum(OrdenSalida(df), i)

\* position of an alert in the order calibration, adherence rules in their
\* declared column order, expectancy
Rank(a) ==
    IF a = AlertaCalibracion THEN 0
    ELSE IF a = AlertaExpectativa THEN Len(columnas_control) + 1
    ELSE CHOOSE i \in 1..Len(columnas_control) : columnas_control[i] = a.regla

\* C2: in the alert list the calibration alert precedes every adherence alert,
\* adherence alerts follow the declared column order and name only columns of
\* the input, the expectancy alert is last, and no rule alerts twice.
C2_AlertOrder ==
    /\ \A i, j \in 1..Len(alerts) : i < j => Rank(alerts[i]) < Rank(alerts[j])
    /\ \A i \in 1..Len(alerts) :
          alerts[i].regla # "" => alerts[i].regla \in archivo.columns

\* a finished run with the calibration alert, two or more adherence alerts and
\* the expectancy alert, on a sheet that lacks some control column
C2_Witness ==
    /\ pc = "fin"
    /\ Len(alerts) >= 4
    /\ alerts[1] = AlertaCalibracion
    /\ alerts[Len(alerts)] = AlertaExpectativa
    /\ ~(Range(columnas_control) \subseteq archivo.columns)

\* trades whose clamped probability lies in [lo, hi)
EnIntervalo(rows, lo, hi) ==
    [i \in 1..Len(rows) |->
        /\ Le(lo, Clip01(rows[i]["probabilidad_asignada"]))
        /\ Lt(Clip01(rows[i]["probabilidad_asignada"]), hi)]

MedioRef == Pick(resultado, EnIntervalo(df, Num(4, 10), Num(6, 10)))

\* C3: the calibration alert is emitted iff at least one trade has its clamped
\* probability in [0.4, 0.6) and the mean is_win of those trades differs from
\* 0.5 by more than 0.15; with no such trade the middle frequency is undefined.
C3_CalibrationAlertIff ==
    pc = "fin" =>
        /\ (\E i \in 1..Len(alerts) : alerts[i] = AlertaCalibracion)
              <=> /\ MedioRef # <<>>
                  /\ Gt(AbsV(Sub(Mean(MedioRef), Num(1, 2))), Num(15, 100))
        /\ MedioRef = <<>> => IsNaN(frecuencia_real[3])

Ganancias == SelectSeq(retorno_realizado, IsPositive)
Perdidas == SelectSeq(retorno_realizado, IsNonPositive)

\* win_rate * mean_gain + (1 - win_rate) * mean_loss, a term of an outcome that
\* never occurs counting as 0
ExpectancyRef ==
    LET n == Num(Len(retorno_realizado), 1)
        wr == Div(Num(Len(Ganancias), 1), n)
        gan == IF Ganancias = <<>> THEN Zero ELSE Mul(wr, Div(SumV(Ganancias), Num(Len(Ganancias), 1)))
        per == IF Perdidas = <<>> THEN Zero
               ELSE Mul(Sub(One, wr), Div(SumV(Perdidas), Num(Len(Perdidas), 1)))
    IN  Add(gan, per)

\* C4: for a non-empty batch the expectancy is defined and equals
\* win_rate * mean_gain + (1 - win_rate) * mean_loss, the term of an outcome
\* that never occurs contributing 0.
C4_ExpectancyDefined ==
    (Pasado("resumen") /\ df # <<>>) =>
        /\ IsNum(expectativa)
        /\ expectativa = ExpectancyRef

\* the largest equity value among the first i points
PeakRef(i) ==
    CHOOSE v \in {serie_equity[j].valor : j \in 1..i} :
        \A j \in 1..i : Le(serie_equity[j].valor, v)

\* C5: at every position the drawdown is (equity - peak) / peak with peak the
\* running maximum, a value <= 0, and undefined (not an infinity) where the
\* running peak is 0.
C5_DrawdownNonPositive ==
    Pasado("equity") =>
        /\ Len(dd) = Len(serie_equity)
        /\ \A i \in 1..Len(dd) :
              IF PeakRef(i) = Zero
              THEN IsNaN(dd[i])
              ELSE /\ dd[i] = Div(Sub(serie_equity[i].valor, PeakRef(i)), PeakRef(i))
                   /\ Le(dd[i], Zero)

CalibracionDispara ==
    /\ IsNum(frecuencia_real[3])
    /\ Gt(AbsV(Sub(frecuencia_real[3], Num(1, 2))), Num(15, 100))

AdherenciaDispara ==
    \E c \in Range(cols_bool) : Lt(Mean(Column(df, c)), Num(7, 10))

ExpectativaDispara == Lt(expectativa, Zero)

\* C6: a run that reaches the alert section shows either one or more alert
\* messages or the "no critical alerts" status, never both and never neither;
\* the status is shown iff no calibration, adherence or expectancy rule fired.
C6_AlertsOrStatus ==
    pc = "fin" =>
        /\ ~((warnings # <<>>) <=> success)
        /\ success <=> ~(CalibracionDispara \/ AdherenciaDispara \/ ExpectativaDispara)

\* a finished run over trades and control columns in which no rule fired
C6_Witness ==
    /\ pc = "fin"
    /\ success
    /\ warnings = <<>>
    /\ df # <<>>
    /\ cols_bool # <<>>

SheetValid == archivo.subido /\ Missing(columnas_obligatorias, archivo.columns) = <<>>

\* C7: a validated batch without trades ends with EmptyBatchError and puts
\* neither the summary nor any alert output on the page.
C7_EmptyBatchError ==
    (SheetValid /\ archivo.rows = <<>>) =>
        /\ ~metricas
        /\ warnings = <<>>
        /\ ~success
        /\ Terminado => error = "EmptyBatchError"

\* C8: once returns have been computed over a batch holding a trade with entry
\* price 0, a DataError has been raised and no infinite or undefined
\* realized_return is stored.
C8_ZeroEntryDataError ==
    (/\ \E i \in 1..Len(df) : DivideByZero(df[i])
     /\ pc \notin {"carga", "verificar", "retorno"}) =>
        /\ error = "DataError"
        /\ \A i \in 1..Len(retorno_realizado) : IsFinite(retorno_realizado[i])

\* actual - estimated over the trades having both values, in original order;
\* nothing qualifies when a slippage column is absent
SlipRef ==
    IF Missing(columnas_slippage, archivo.columns) # <<>> THEN <<>>
    ELSE LET ambos == SelectSeq(df, LAMBDA fila :
                         /\ IsNum(fila["slippage_estimado_pct"])
                         /\ IsNum(fila["slippage_real_pct"]))
         IN  [i \in 1..Len(ambos) |->
                Sub(ambos[i]["slippage_real_pct"], ambos[i]["slippage_estimado_pct"])]

\* C9: the slippage section raises no error, and its output is
\* actual - estimated over exactly the trades with both values present, in
\* original order (empty when none qualifies or a slippage column is absent).
C9_SlippageDeviation ==
    /\ error # "KeyError"
    /\ Pasado("slippage") => slip_vals = SlipRef

\* C10: a sheet lacking mandatory columns is rejected with an error that lists
\* every missing mandatory column, and nothing is computed from it.
C10_MissingFieldsListed ==
    (archivo.subido /\ Missing(columnas_obligatorias, archivo.columns) # <<>>) =>
        /\ pc \in {"carga", "verificar", "stop", "excepcion"}
        /\ Terminado =>
              /\ error # ""
              /\ error_cols = Missing(columnas_obligatorias, archivo.columns)
        /\ retorno_realizado = <<>>
        /\ serie_equity = <<>>
        /\ ~metricas
        /\ alerts = <<>>
        /\ ~success

====
